---- MODULE Spec2Model ----
(***************************************************************************)
(* Model of the relay control repository:                                  *)
(*   - the Pin Ownership Guard, src/gpio_manager.py (class GPIOManager);   *)
(*   - the relay state functions of src/relay_control.py (load_state,      *)
(*     save_state, setup_gpio, set_relay, toggle_relay);                   *)
(*   - the momentary pulse of the RelayController that src/tui.py calls    *)
(*     (pulse_relay, is_pulsing), whose code is not part of src/ and is    *)
(*     modelled from spec.md section 4.2.                                  *)
(*   - the entry point main() of src/tui.py and its exit paths;            *)
(*   - threads calling the Guard under GPIOManager._lock.                  *)
(* RPi.GPIO is the hardware boundary: every call into it either completes  *)
(* or raises, and the model chooses between the two.                       *)
(***************************************************************************)
EXTENDS Integers, Sequences, FiniteSets, TLC

\* ------------------------------------------------------------------ bounds
\* How many of the relay pins Guard operations are issued on.
NumGuardPins == 1

\* Relay operations are issued on relays 1..NumOpRelays and on one
\* identifier that is not in RELAY_PINS.
NumOpRelays == 2

\* Where pulses run, relays 1..NumPulseRelays are pulsed and set.
NumPulseRelays == 1

\* Longest pulse, in timer ticks.
MaxDuration == 1

\* How many threads call the Guard at the same time.
NumThreads == 2

\* --------------------------------------------------------------- constants
\* relay_control.py RELAY_PINS: relay number -> BCM pin.
RELAY_PINS == [r \in 1..4 |-> 21 + r]

Relays == DOMAIN RELAY_PINS

Pins == {RELAY_PINS[r] : r \in Relays}

GuardPins == {RELAY_PINS[r] : r \in 1..NumGuardPins}

\* GPIO.BCM / GPIO.BOARD, the values initialize() is given for mode.
Modes == {"BCM", "BOARD"}

\* GPIO.OUT / GPIO.IN.
Directions == {"OUT", "IN"}

\* GPIO.LOW / GPIO.HIGH; "Z" is a line nobody has driven.
Levels == {"LOW", "HIGH"}

\* Low level trigger: LOW turns the relay on.
RELAY_ON_STATE == "LOW"

RELAY_OFF_STATE == "HIGH"

VARIABLES
    \* GPIOManager (class attributes and the singleton's fields)
    _initialized, _mode_set, _warnings_set, _registered_pins, _cleaned_up,
    \* RPi.GPIO: what the hardware library has been told
    gpio_mode, gpio_warnings, gpio_dir, gpio_level,
    \* how many times GPIO.setmode + GPIO.setwarnings completed inside
    \* initialize(), and how many GPIO.cleanup() calls completed
    hw_inits, teardowns,
    \* the last operation: its name, its arguments, what the caller got back
    \* (a return value or the kind of exception), the hardware calls it made
    op, args, result, calls,
    \* what toggle_relay found when it was last called, if it is the last
    \* operation: the relay's state, its pin's level and the state file, and
    \* whether the operation before was a toggle of the same relay that
    \* returned (nth = 2) or not (nth = 1)
    toggled_from,
    \* relay_control.py: module globals, the state file and its directory
    relay_states, gpio_setup_successful, state_file,
    \* what the last operation's load_state() / save_state() ran into, and
    \* what became of the temporary file save_state() made: "none" (never
    \* created, or renamed onto the state file), "removed", "remove_failed"
    \* (os.remove raised, the file is still there)
    load_status, save_status, temp_status,
    \* the dictionary whose save_state() put the present state file in place
    \* (empty when the file is absent or is somebody else's)
    saved_states,
    \* RelayController pulses: PulseRegistry, the timers, and the callbacks
    \* that have left the registry and not yet driven the pin off
    pulsing, timer, reverting,
    \* tui.py main(): where the process is in main, and its local variable
    \* `controller`
    pc, controller,
    \* threads calling the Guard: who holds GPIOManager._lock, and for every
    \* thread its position in its call, the call, and what its last
    \* initialize() gave back
    lock, thread

guardVars == <<_initialized, _mode_set, _warnings_set, _registered_pins, _cleaned_up>>

hwVars == <<gpio_mode, gpio_warnings, gpio_dir, gpio_level>>

countVars == <<hw_inits, teardowns>>

relayVars == <<relay_states, gpio_setup_successful, state_file,
               load_status, save_status, temp_status, saved_states>>

pulseVars == <<pulsing, timer, reverting>>

mainVars == <<pc, controller>>

threadVars == <<lock, thread>>

procVars == <<mainVars, threadVars>>

vars == <<guardVars, hwVars, countVars, op, args, result, calls, toggled_from,
          relayVars, pulseVars, procVars>>

\* ---------------------------------------------------------------- RPi.GPIO
\* The caller's view of an operation: returned normally, or raised.
Returned == "ok"

\* RuntimeError("GPIOManager already cleaned up.")
AlreadyFinalized == "AlreadyFinalized"

\* RuntimeError("GPIO mode conflict: ...")
ConfigurationConflict == "ConfigurationConflict"

\* RuntimeError("GPIOManager not initialized.")
NotInitialized == "NotInitialized"

\* whatever RPi.GPIO raised, re-raised by the Guard
HardwareFailure == "HardwareFailure"

\* RPi.GPIO refuses a call made in the wrong state (it raises); a call made
\* in the right state completes or raises.
\* GPIO.setmode: "A different mode has already been set!"
gpio_can_setmode(mode) == gpio_mode \in {"None", mode}

\* GPIO.setup: the numbering mode must have been set.
gpio_can_setup == gpio_mode # "None"

\* GPIO.output: the channel must have been set up as an output.
gpio_can_output(pin) == gpio_dir[pin] = "OUT"

\* GPIO.input: the channel must have been set up.
gpio_can_input(pin) == gpio_dir[pin] # "unset"

\* The last operation is no toggle_relay of a relay of RELAY_PINS.
NotToggled ==
    [nth |-> 0, state |-> FALSE, level |-> "none", file |-> [kind |-> "none", data |-> <<>>]]

\* An operation that returns/raises `res` after the hardware calls `cs`.
Outcome(name, a, res, cs) ==
    /\ op' = name
    /\ args' = a
    /\ result' = res
    /\ calls' = cs
    /\ toggled_from' =
          IF name = "toggle_relay" /\ a[1] \in DOMAIN RELAY_PINS
          THEN [nth |-> IF op = name /\ args = a /\ result = Returned THEN 2 ELSE 1,
                state |-> relay_states[a[1]],
                level |-> gpio_level[RELAY_PINS[a[1]]],
                file |-> state_file]
          ELSE NotToggled

\* ------------------------------------------------------------- GPIOManager
\* initialize_again without the mode comparison: a second caller's mode is
\* accepted silently.
initialize_again_no_conflict(mode, warnings) ==
    /\ UNCHANGED <<guardVars, hwVars, countVars>>
    /\ Outcome("initialize", <<mode, warnings>>, Returned, <<>>)

\* initialize_again that applies the parameters to the hardware once more.
initialize_again_retouch(mode, warnings) ==
    IF _mode_set # mode
    THEN /\ UNCHANGED <<guardVars, hwVars, countVars>>
         /\ Outcome("initialize", <<mode, warnings>>, ConfigurationConflict, <<>>)
    ELSE /\ gpio_warnings' = warnings
         /\ hw_inits' = hw_inits + 1
         /\ Outcome("initialize", <<mode, warnings>>, Returned, <<"setmode", "setwarnings">>)
         /\ UNCHANGED <<guardVars, gpio_mode, gpio_dir, gpio_level, teardowns>>

\* initialize(), lines 33-42: the Guard is already initialized.
initialize_again(mode, warnings) ==
    /\ UNCHANGED <<guardVars, hwVars, countVars>>
    /\ IF _mode_set # mode
       THEN Outcome("initialize", <<mode, warnings>>, ConfigurationConflict, <<>>)
       ELSE \* a differing warnings value is logged as a warning only
            Outcome("initialize", <<mode, warnings>>, Returned, <<>>)

\* initialize(), lines 44-54: first initialization, GPIO.setmode then
\* GPIO.setwarnings; either may raise, and the fields are assigned after both.
initialize_first(mode, warnings) ==
    \/ /\ Outcome("initialize", <<mode, warnings>>, HardwareFailure, <<"setmode">>)
       /\ UNCHANGED <<guardVars, hwVars, countVars>>
    \/ /\ gpio_can_setmode(mode)
       /\ gpio_mode' = mode
       /\ Outcome("initialize", <<mode, warnings>>, HardwareFailure,
                  <<"setmode", "setwarnings">>)
       /\ UNCHANGED <<guardVars, gpio_warnings, gpio_dir, gpio_level, countVars>>
    \/ /\ gpio_can_setmode(mode)
       /\ hw_inits' = hw_inits + 1
       /\ gpio_mode' = mode
       /\ gpio_warnings' = warnings
       /\ _mode_set' = mode
       /\ _warnings_set' = warnings
       /\ _initialized' = TRUE
       /\ Outcome("initialize", <<mode, warnings>>, Returned,
                  <<"setmode", "setwarnings">>)
       /\ UNCHANGED <<_registered_pins, _cleaned_up, gpio_dir, gpio_level, teardowns>>

initialize(mode, warnings) ==
    IF _cleaned_up
    THEN /\ Outcome("initialize", <<mode, warnings>>, AlreadyFinalized, <<>>)
         /\ UNCHANGED <<guardVars, hwVars, countVars>>
    ELSE IF _initialized
         THEN initialize_again(mode, warnings)
         ELSE initialize_first(mode, warnings)

\* setup_pin(), lines 59-64: the two lifecycle checks, in the code's order.
\* "pass" means neither raised.
setup_pin_check ==
    IF ~_initialized THEN NotInitialized
    ELSE IF _cleaned_up THEN AlreadyFinalized
    ELSE "pass"

\* setup_pin(pin, direction, initial): pull_up_down is handed to GPIO.setup
\* unchanged and has no effect the model tracks.
setup_pin(pin, direction, initial) ==
    IF setup_pin_check # "pass"
    THEN /\ Outcome("setup_pin", <<pin, direction, initial>>, setup_pin_check, <<>>)
         /\ UNCHANGED <<guardVars, hwVars, countVars>>
    ELSE \/ /\ Outcome("setup_pin", <<pin, direction, initial>>, HardwareFailure,
                       <<"setup">>)
            /\ UNCHANGED <<guardVars, hwVars, countVars>>
         \/ /\ gpio_can_setup
            /\ gpio_dir' = [gpio_dir EXCEPT ![pin] = direction]
            /\ gpio_level' = IF initial # "None"
                             THEN [gpio_level EXCEPT ![pin] = initial]
                             ELSE gpio_level
            /\ _registered_pins' = _registered_pins \cup {pin}
            /\ Outcome("setup_pin", <<pin, direction, initial>>, Returned, <<"setup">>)
            /\ UNCHANGED <<_initialized, _mode_set, _warnings_set, _cleaned_up,
                           gpio_mode, gpio_warnings, countVars>>

\* set_output without the _cleaned_up check.
set_output_unchecked(pin, value) ==
    \/ /\ Outcome("set_output", <<pin, value>>, HardwareFailure, <<"output">>)
       /\ UNCHANGED <<guardVars, hwVars, countVars>>
    \/ /\ gpio_can_output(pin)
       /\ gpio_level' = [gpio_level EXCEPT ![pin] = value]
       /\ Outcome("set_output", <<pin, value>>, Returned, <<"output">>)
       /\ UNCHANGED <<guardVars, gpio_mode, gpio_warnings, gpio_dir, countVars>>

\* set_output with the raise that line 85 has commented out: a pin that is
\* not registered is refused.
set_output_registered_only(pin, value) ==
    IF pin \notin _registered_pins \/ _cleaned_up
    THEN /\ Outcome("set_output", <<pin, value>>,
                    IF _cleaned_up THEN AlreadyFinalized ELSE "NotRegistered", <<>>)
         /\ UNCHANGED <<guardVars, hwVars, countVars>>
    ELSE \/ /\ Outcome("set_output", <<pin, value>>, HardwareFailure, <<"output">>)
            /\ UNCHANGED <<guardVars, hwVars, countVars>>
         \/ /\ gpio_can_output(pin)
            /\ gpio_level' = [gpio_level EXCEPT ![pin] = value]
            /\ Outcome("set_output", <<pin, value>>, Returned, <<"output">>)
            /\ UNCHANGED <<guardVars, gpio_mode, gpio_warnings, gpio_dir, countVars>>

\* set_output(pin, value): an unregistered pin is only logged.
set_output(pin, value) ==
    IF _cleaned_up
    THEN /\ Outcome("set_output", <<pin, value>>, AlreadyFinalized, <<>>)
         /\ UNCHANGED <<guardVars, hwVars, countVars>>
    ELSE \/ /\ Outcome("set_output", <<pin, value>>, HardwareFailure, <<"output">>)
            /\ UNCHANGED <<guardVars, hwVars, countVars>>
         \/ /\ gpio_can_output(pin)
            /\ gpio_level' = [gpio_level EXCEPT ![pin] = value]
            /\ Outcome("set_output", <<pin, value>>, Returned, <<"output">>)
            /\ UNCHANGED <<guardVars, gpio_mode, gpio_warnings, gpio_dir, countVars>>

\* read_input(pin): returns GPIO.input(pin).
read_input(pin) ==
    IF _cleaned_up
    THEN /\ Outcome("read_input", <<pin>>, AlreadyFinalized, <<>>)
         /\ UNCHANGED <<guardVars, hwVars, countVars>>
    ELSE \/ /\ Outcome("read_input", <<pin>>, HardwareFailure, <<"input">>)
            /\ UNCHANGED <<guardVars, hwVars, countVars>>
         \/ /\ gpio_can_input(pin)
            /\ Outcome("read_input", <<pin>>, gpio_level[pin], <<"input">>)
            /\ UNCHANGED <<guardVars, hwVars, countVars>>

\* release_pin(pin): no GPIO call.
release_pin(pin) ==
    /\ _registered_pins' = _registered_pins \ {pin}
    /\ Outcome("release_pin", <<pin>>, Returned, <<>>)
    /\ UNCHANGED <<_initialized, _mode_set, _warnings_set, _cleaned_up, hwVars, countVars>>

\* cleanup_all_skips without the never-initialized return.
cleanup_all_skips_cleaned_only == _cleaned_up

\* cleanup_all(), lines 121-126: the two early returns.
cleanup_all_skips == ~_initialized \/ _cleaned_up

\* cleanup_all without lines 132-133: the Guard stays initialized and keeps
\* its registered pins after the teardown.
cleanup_all_keeps_state ==
    IF cleanup_all_skips
    THEN /\ Outcome("cleanup_all", <<>>, Returned, <<>>)
         /\ UNCHANGED <<guardVars, hwVars, countVars>>
    ELSE \/ /\ Outcome("cleanup_all", <<>>, Returned, <<"cleanup">>)
            /\ UNCHANGED <<guardVars, hwVars, countVars>>
         \/ /\ gpio_mode' = "None"
            /\ gpio_dir' = [p \in Pins |-> "unset"]
            /\ gpio_level' = [p \in Pins |-> "Z"]
            /\ teardowns' = teardowns + 1
            /\ _cleaned_up' = TRUE
            /\ Outcome("cleanup_all", <<>>, Returned, <<"cleanup">>)
            /\ UNCHANGED <<_initialized, _registered_pins, _mode_set, _warnings_set,
                           gpio_warnings, hw_inits>>

\* cleanup_all(): GPIO.cleanup() resets every channel; if it raises, the
\* error is logged and swallowed and no field is assigned.
cleanup_all ==
    IF cleanup_all_skips
    THEN /\ Outcome("cleanup_all", <<>>, Returned, <<>>)
         /\ UNCHANGED <<guardVars, hwVars, countVars>>
    ELSE \/ /\ Outcome("cleanup_all", <<>>, Returned, <<"cleanup">>)
            /\ UNCHANGED <<guardVars, hwVars, countVars>>
         \/ /\ gpio_mode' = "None"
            /\ gpio_dir' = [p \in Pins |-> "unset"]
            /\ gpio_level' = [p \in Pins |-> "Z"]
            /\ teardowns' = teardowns + 1
            /\ _cleaned_up' = TRUE
            /\ _initialized' = FALSE
            /\ _registered_pins' = {}
            /\ Outcome("cleanup_all", <<>>, Returned, <<"cleanup">>)
            /\ UNCHANGED <<_mode_set, _warnings_set, gpio_warnings, hw_inits>>

\* ----------------------------------------------------------- state file
\* The keys a state file on disk may carry: the decimal strings json.dump
\* writes for the relay numbers, one more number, and a key int() rejects.
StrOf(n) == CASE n = 1 -> "1" [] n = 2 -> "2" [] n = 3 -> "3" [] n = 4 -> "4"
              [] OTHER -> "5"

DecimalKeys == {StrOf(n) : n \in 1..(Cardinality(Relays) + 1)}

\* int(k) for a decimal key; int("x") raises ValueError.
IntOf(k) == CHOOSE n \in 1..(Cardinality(Relays) + 1) : StrOf(n) = k

NoData == [k \in {} |-> FALSE]

Absent == [kind |-> "absent", data |-> NoData]

\* a file json.load cannot parse
Corrupt == [kind |-> "corrupt", data |-> NoData]

Json(d) == [kind |-> "json", data |-> d]

\* json.dump(relay_states, tf): int keys become their decimal strings.
Dump(states) ==
    [k \in {StrOf(n) : n \in DOMAIN states} |->
        states[CHOOSE n \in DOMAIN states : StrOf(n) = k]]

\* {relay_num: False for relay_num in RELAY_PINS}
Defaults == [r \in DOMAIN RELAY_PINS |-> FALSE]

\* dict.update
Update(d, e) ==
    [n \in DOMAIN d \cup DOMAIN e |-> IF n \in DOMAIN e THEN e[n] ELSE d[n]]

\* d[k] = v
Assign(d, k, v) == [n \in DOMAIN d \cup {k} |-> IF n = k THEN v ELSE d[n]]

\* load_parsed that validates the file and then does not apply it.
load_parsed_keeps(states, d) == states

\* load_parsed without the comparison of the key sets.
load_parsed_unvalidated(states, d) ==
    Update(states, [n \in {IntOf(k) : k \in DOMAIN d} |->
                       d[CHOOSE k \in DOMAIN d : IntOf(k) = n]])

\* load_state(), lines 54-62: the parsed file `d` (string keys), its keys
\* converted with int() (all of them decimal), checked against RELAY_PINS.
load_parsed(states, d) ==
    LET loaded_states == [n \in {IntOf(k) : k \in DOMAIN d} |->
                             d[CHOOSE k \in DOMAIN d : IntOf(k) = n]]
    IN  IF DOMAIN loaded_states = DOMAIN RELAY_PINS
        THEN Update(states, loaded_states)
        ELSE states

\* load_state(): the value of relay_states after the call, given whether
\* open()/read raised IOError.
load_state_value(states, file, io_error) ==
    IF file.kind = "absent" THEN states
    ELSE IF io_error \/ file.kind = "corrupt" THEN Defaults
    ELSE IF \E k \in DOMAIN file.data : k \notin DecimalKeys THEN Defaults
    ELSE load_parsed(states, file.data)

\* which branch of load_state() ran
load_state_branch(file, io_error) ==
    IF file.kind = "absent" THEN "absent"
    ELSE IF io_error THEN "io_error"
    ELSE IF file.kind = "corrupt" THEN "error"
    ELSE IF \E k \in DOMAIN file.data : k \notin DecimalKeys THEN "error"
    ELSE IF {IntOf(k) : k \in DOMAIN file.data} = DOMAIN RELAY_PINS THEN "loaded"
    ELSE "mismatch"

\* load_state() as a step of an operation.
load_state ==
    \E io_error \in BOOLEAN :
        /\ io_error => state_file.kind # "absent"
        /\ relay_states' = load_state_value(relay_states, state_file, io_error)
        /\ load_status' = load_state_branch(state_file, io_error)

\* save_state(), lines 96-101 / 104-109: after a failure the temporary file
\* is removed if it was created; os.remove may itself fail, which is logged.
remove_temp(step) ==
    IF step = "create"
    THEN temp_status' = "none"
    ELSE temp_status' \in {"removed", "remove_failed"}

\* save_state writing the state file in place instead of a temporary file:
\* a failed write leaves a truncated file.
save_state_in_place(states) ==
    \/ /\ save_status' = "create"
       /\ temp_status' = "none"
       /\ UNCHANGED <<state_file, saved_states>>
    \/ \E step \in {"write", "fsync"} :
          /\ save_status' = step
          /\ temp_status' = "none"
          /\ state_file' = Corrupt
          /\ saved_states' = NoData
    \/ /\ save_status' = "saved"
       /\ temp_status' = "none"
       /\ state_file' = Json(Dump(states))
       /\ saved_states' = states

\* save_state() with relay_states = states: NamedTemporaryFile, json.dump +
\* flush, os.fsync, os.rename; every exception is caught and logged.
save_state(states) ==
    \/ \E step \in {"create", "write", "fsync", "rename"} :
          /\ save_status' = step
          /\ remove_temp(step)
          /\ UNCHANGED <<state_file, saved_states>>
    \/ /\ save_status' = "saved"
       /\ temp_status' = "none"
       /\ state_file' = Json(Dump(states))
       /\ saved_states' = states

NoSave ==
    save_status' = "none" /\ temp_status' = "none" /\ UNCHANGED <<state_file, saved_states>>

NoLoad == load_status' = "none"

\* ------------------------------------------------------------ relay control
Level(state) == IF state THEN RELAY_ON_STATE ELSE RELAY_OFF_STATE

\* The GPIO calls of setup_gpio(), lines 118-127: setmode, setwarnings, then
\* setup and output per relay in the order of RELAY_PINS.
SetupCalls == 2 * Cardinality(Relays) + 2

\* setup_gpio_hw that configures the pins and does not drive them.
setup_gpio_hw_undriven(n, states) ==
    /\ gpio_mode' = IF n >= 1 THEN "BCM" ELSE gpio_mode
    /\ gpio_warnings' = IF n >= 2 THEN FALSE ELSE gpio_warnings
    /\ gpio_dir' = [p \in Pins |->
                      IF \E r \in Relays : RELAY_PINS[r] = p /\ n >= 2 * r + 1
                      THEN "OUT" ELSE gpio_dir[p]]
    /\ UNCHANGED gpio_level

\* setup_gpio(), lines 117-131, when the first n GPIO calls complete and the
\* next one raises.
setup_gpio_hw(n, states) ==
    /\ gpio_mode' = IF n >= 1 THEN "BCM" ELSE gpio_mode
    /\ gpio_warnings' = IF n >= 2 THEN FALSE ELSE gpio_warnings
    /\ gpio_dir' = [p \in Pins |->
                      IF \E r \in Relays : RELAY_PINS[r] = p /\ n >= 2 * r + 1
                      THEN "OUT" ELSE gpio_dir[p]]
    /\ gpio_level' = [p \in Pins |->
                      IF \E r \in Relays : RELAY_PINS[r] = p /\ n >= 2 * r + 2
                      THEN LET r == CHOOSE q \in Relays : RELAY_PINS[q] = p
                           IN  Level(IF r \in DOMAIN states THEN states[r] ELSE FALSE)
                      ELSE gpio_level[p]]

\* setup_gpio(): load_state(), then the GPIO calls; an exception is re-raised
\* and leaves what was already applied.
setup_gpio ==
    /\ load_state
    /\ \E n \in 0..SetupCalls :
          /\ n >= 1 => gpio_can_setmode("BCM")
          /\ setup_gpio_hw(n, relay_states')
          /\ IF n = SetupCalls
             THEN /\ gpio_setup_successful' = TRUE
                  /\ Outcome("setup_gpio", <<>>, Returned, <<"setup", "output">>)
             ELSE /\ UNCHANGED gpio_setup_successful
                  /\ Outcome("setup_gpio", <<>>, HardwareFailure, <<"setup">>)
    /\ NoSave

\* cleanup_gpio(): GPIO.cleanup(); gpio_setup_successful is not reset.
cleanup_gpio ==
    /\ \/ /\ gpio_mode' = "None"
          /\ gpio_dir' = [p \in Pins |-> "unset"]
          /\ gpio_level' = [p \in Pins |-> "Z"]
          /\ Outcome("cleanup_gpio", <<>>, Returned, <<"cleanup">>)
          /\ UNCHANGED gpio_warnings
       \/ /\ Outcome("cleanup_gpio", <<>>, HardwareFailure, <<"cleanup">>)
          /\ UNCHANGED hwVars
    /\ NoSave /\ NoLoad
    /\ UNCHANGED <<relay_states, gpio_setup_successful>>

\* run_relay_control(), line 250: the flag is cleared at the start of a run.
run_relay_control_begin ==
    /\ gpio_setup_successful' = FALSE
    /\ Outcome("run_relay_control", <<>>, Returned, <<>>)
    /\ NoSave /\ NoLoad
    /\ UNCHANGED <<relay_states, hwVars>>

\* set_relay_known updating the dictionary before the pin is driven: when
\* GPIO.output raises, the dictionary already has the new state.
set_relay_known_state_first(name, a, relay_num, state) ==
    /\ relay_states' = Assign(relay_states, relay_num, state)
    /\ \/ /\ Outcome(name, a, HardwareFailure, <<"output">>)
          /\ NoSave
          /\ UNCHANGED hwVars
       \/ /\ gpio_can_output(RELAY_PINS[relay_num])
          /\ gpio_level' = [gpio_level EXCEPT ![RELAY_PINS[relay_num]] = Level(state)]
          /\ save_state(relay_states')
          /\ Outcome(name, a, Returned, <<"output">>)
          /\ UNCHANGED <<gpio_mode, gpio_warnings, gpio_dir>>

\* set_relay_known saving before the dictionary is updated.
set_relay_known_save_first(name, a, relay_num, state) ==
    \/ /\ Outcome(name, a, HardwareFailure, <<"output">>)
       /\ NoSave
       /\ UNCHANGED <<relay_states, hwVars>>
    \/ /\ gpio_can_output(RELAY_PINS[relay_num])
       /\ gpio_level' = [gpio_level EXCEPT ![RELAY_PINS[relay_num]] = Level(state)]
       /\ save_state(relay_states)
       /\ relay_states' = Assign(relay_states, relay_num, state)
       /\ Outcome(name, a, Returned, <<"output">>)
       /\ UNCHANGED <<gpio_mode, gpio_warnings, gpio_dir>>

\* set_relay(), lines 159-164: GPIO.output, then the dictionary, then
\* save_state(); GPIO.output may raise, save_state() never does.
set_relay_known(name, a, relay_num, state) ==
    \/ /\ Outcome(name, a, HardwareFailure, <<"output">>)
       /\ NoSave
       /\ UNCHANGED <<relay_states, hwVars>>
    \/ /\ gpio_can_output(RELAY_PINS[relay_num])
       /\ gpio_level' = [gpio_level EXCEPT ![RELAY_PINS[relay_num]] = Level(state)]
       /\ relay_states' = Assign(relay_states, relay_num, state)
       /\ save_state(relay_states')
       /\ Outcome(name, a, Returned, <<"output">>)
       /\ UNCHANGED <<gpio_mode, gpio_warnings, gpio_dir>>

\* set_relay(relay_num, state), called as operation `name` with arguments a.
set_relay_as(name, a, relay_num, state) ==
    /\ IF relay_num \notin DOMAIN RELAY_PINS
       THEN /\ Outcome(name, a, Returned, <<>>)
            /\ NoSave
            /\ UNCHANGED <<relay_states, hwVars>>
       ELSE set_relay_known(name, a, relay_num, state)
    /\ NoLoad
    /\ UNCHANGED gpio_setup_successful

set_relay(relay_num, state) ==
    set_relay_as("set_relay", <<relay_num, state>>, relay_num, state)

\* toggle_relay that turns the relay on whatever its state.
toggle_relay_on(relay_num) ==
    IF relay_num \in DOMAIN relay_states
    THEN set_relay_as("toggle_relay", <<relay_num>>, relay_num, TRUE)
    ELSE /\ Outcome("toggle_relay", <<relay_num>>, Returned, <<>>)
         /\ NoSave /\ NoLoad
         /\ UNCHANGED <<relay_states, gpio_setup_successful, hwVars>>

\* toggle_relay(relay_num)
toggle_relay(relay_num) ==
    IF relay_num \in DOMAIN relay_states
    THEN set_relay_as("toggle_relay", <<relay_num>>, relay_num, ~relay_states[relay_num])
    ELSE /\ Outcome("toggle_relay", <<relay_num>>, Returned, <<>>)
         /\ NoSave /\ NoLoad
         /\ UNCHANGED <<relay_states, gpio_setup_successful, hwVars>>

\* -------------------------------------------------- RelayController pulses
\* is_pulsing(relay): membership in PulseRegistry.
is_pulsing(relay_num) == relay_num \in pulsing

\* What stays as it is when the controller turns a request down.
Rejected(name, a, res) ==
    /\ Outcome(name, a, res, <<>>)
    /\ NoSave /\ NoLoad
    /\ UNCHANGED <<relay_states, gpio_setup_successful, hwVars>>

\* controller_set_relay without the look at PulseRegistry.
controller_set_relay_unguarded(relay_num, state) ==
    /\ set_relay(relay_num, state)
    /\ UNCHANGED pulseVars

\* RelayController.set_relay: a relay in PulseRegistry is owned by its pulse
\* and the request is rejected; otherwise set_relay as in relay_control.py.
controller_set_relay(relay_num, state) ==
    /\ IF is_pulsing(relay_num)
       THEN Rejected("set_relay", <<relay_num, state>>, "PulseInProgress")
       ELSE set_relay(relay_num, state)
    /\ UNCHANGED pulseVars

\* RelayController.toggle_relay: set_relay with the negation, with all its
\* failure modes.
controller_toggle_relay(relay_num) ==
    /\ IF is_pulsing(relay_num)
       THEN Rejected("toggle_relay", <<relay_num>>, "PulseInProgress")
       ELSE toggle_relay(relay_num)
    /\ UNCHANGED pulseVars

\* pulse_relay, steps (a)-(c): the relay enters PulseRegistry, the pin is
\* driven on and the reversion is scheduled d ticks ahead; if the on drive
\* fails the relay leaves the registry again and an off drive is attempted.
pulse_start(relay_num, d) ==
    \/ /\ gpio_can_output(RELAY_PINS[relay_num])
       /\ pulsing' = pulsing \cup {relay_num}
       /\ timer' = [timer EXCEPT ![relay_num] = d]
       /\ gpio_level' = [gpio_level EXCEPT ![RELAY_PINS[relay_num]] = RELAY_ON_STATE]
       /\ Outcome("pulse_relay", <<relay_num, d>>, "Started", <<"output">>)
    \/ /\ UNCHANGED <<pulsing, timer>>
       /\ \/ /\ gpio_can_output(RELAY_PINS[relay_num])
             /\ gpio_level' = [gpio_level EXCEPT ![RELAY_PINS[relay_num]] = RELAY_OFF_STATE]
          \/ UNCHANGED gpio_level
       /\ Outcome("pulse_relay", <<relay_num, d>>, HardwareFailure, <<"output", "output">>)

\* pulse_relay that turns the relay on with set_relay, dictionary and state
\* file included.
pulse_relay_persisting(relay_num, d) ==
    IF ~gpio_setup_successful \/ relay_num \notin DOMAIN RELAY_PINS \/ is_pulsing(relay_num)
    THEN Rejected("pulse_relay", <<relay_num, d>>, "NotStarted") /\ UNCHANGED pulseVars
    ELSE /\ set_relay_as("pulse_relay", <<relay_num, d>>, relay_num, TRUE)
         /\ pulsing' = pulsing \cup {relay_num}
         /\ timer' = [timer EXCEPT ![relay_num] = d]
         /\ UNCHANGED reverting

\* pulse_relay(relay, duration)
pulse_relay(relay_num, d) ==
    /\ IF ~gpio_setup_successful
       THEN Rejected("pulse_relay", <<relay_num, d>>, "NotReady") /\ UNCHANGED pulseVars
       ELSE IF relay_num \notin DOMAIN RELAY_PINS
       THEN Rejected("pulse_relay", <<relay_num, d>>, "UnknownRelay") /\ UNCHANGED pulseVars
       ELSE IF is_pulsing(relay_num)
       THEN Rejected("pulse_relay", <<relay_num, d>>, "NotStarted") /\ UNCHANGED pulseVars
       ELSE /\ pulse_start(relay_num, d)
            /\ NoSave /\ NoLoad
            /\ UNCHANGED <<relay_states, gpio_setup_successful, gpio_mode, gpio_warnings,
                           gpio_dir, reverting>>

\* Time passes: every running timer is one tick closer to its deadline.
tick ==
    /\ \E r \in Relays : timer[r] > 0
    /\ timer' = [r \in Relays |-> IF timer[r] > 0 THEN timer[r] - 1 ELSE timer[r]]
    /\ Outcome("tick", <<>>, "none", <<>>)
    /\ NoSave /\ NoLoad
    /\ UNCHANGED <<pulsing, reverting, relay_states, gpio_setup_successful, hwVars>>

\* A timer callback that drives the pin off first and takes the relay out of
\* PulseRegistry afterwards: when the drive raises, the callback ends there.
pulse_expire_after_drive(relay_num) ==
    /\ is_pulsing(relay_num)
    /\ timer[relay_num] = 0
    /\ relay_num \notin reverting
    /\ timer' = [timer EXCEPT ![relay_num] = -1]
    /\ \/ /\ gpio_can_output(RELAY_PINS[relay_num])
          /\ gpio_level' = [gpio_level EXCEPT ![RELAY_PINS[relay_num]] = RELAY_OFF_STATE]
          /\ pulsing' = pulsing \ {relay_num}
       \/ UNCHANGED <<gpio_level, pulsing>>
    /\ Outcome("pulse_expire", <<relay_num>>, "none", <<"output">>)
    /\ NoSave /\ NoLoad
    /\ UNCHANGED <<reverting, relay_states, gpio_setup_successful,
                   gpio_mode, gpio_warnings, gpio_dir>>

\* pulse_relay, step (d), first half: the timer callback takes the relay out
\* of PulseRegistry.
pulse_expire(relay_num) ==
    /\ is_pulsing(relay_num)
    /\ timer[relay_num] = 0
    /\ relay_num \notin reverting
    /\ pulsing' = pulsing \ {relay_num}
    /\ timer' = [timer EXCEPT ![relay_num] = -1]
    /\ reverting' = reverting \cup {relay_num}
    /\ Outcome("pulse_expire", <<relay_num>>, "none", <<>>)
    /\ NoSave /\ NoLoad
    /\ UNCHANGED <<relay_states, gpio_setup_successful, hwVars>>

\* pulse_relay, step (d), second half: the callback drives the pin off,
\* whether or not the drive succeeds.
pulse_drive_off(relay_num) ==
    /\ relay_num \in reverting
    /\ reverting' = reverting \ {relay_num}
    /\ \/ /\ gpio_can_output(RELAY_PINS[relay_num])
          /\ gpio_level' = [gpio_level EXCEPT ![RELAY_PINS[relay_num]] = RELAY_OFF_STATE]
       \/ UNCHANGED gpio_level
    /\ Outcome("pulse_drive_off", <<relay_num>>, "none", <<"output">>)
    /\ NoSave /\ NoLoad
    /\ UNCHANGED <<pulsing, timer, relay_states, gpio_setup_successful,
                   gpio_mode, gpio_warnings, gpio_dir>>

\* ------------------------------------------------------------- tui.py main
\* main() runs gpio_manager.initialize(), creates the RelayController, sets
\* it up, runs the UI, and cleans up in its except and finally blocks. The
\* RelayController's methods are what spec.md section 4.2 says of them; what
\* main() does with what they return or raise is main()'s code.
\* Raised by a call main() makes into the controller.
Raised == "Raised"

\* Line 150, gpio_manager.initialize() with its defaults GPIO.BCM and
\* warnings=False; an exception takes main() to its except block.
main_initialize ==
    /\ pc = "start"
    /\ initialize("BCM", FALSE)
    /\ pc' = IF result' = Returned THEN "create" ELSE "except"
    /\ UNCHANGED controller

\* Line 154, controller = RelayController(...): the name is bound when the
\* constructor returns, and is not when it raises.
main_create ==
    /\ pc = "create"
    /\ \/ /\ Outcome("RelayController", <<>>, Returned, <<>>)
          /\ controller' = "not_ready"
          /\ pc' = "setup"
       \/ /\ Outcome("RelayController", <<>>, Raised, <<>>)
          /\ pc' = "except"
          /\ UNCHANGED controller
    /\ UNCHANGED <<guardVars, hwVars, countVars>>

\* The relay whose pin controller.setup() registers next.
next_relay == CHOOSE r \in Relays :
                 /\ RELAY_PINS[r] \notin _registered_pins
                 /\ \A q \in Relays : q < r => RELAY_PINS[q] \in _registered_pins

\* Lines 156-159, controller.setup(): every relay's pin is registered as an
\* output through the Guard at the level of the relay's state, and after the
\* last one the controller is ready. When the Guard raises, setup() either
\* returns False, and main() calls sys.exit(1), whose SystemExit passes the
\* except block, or lets the exception through to the except block.
controller_setup ==
    /\ pc = "setup"
    /\ setup_pin(RELAY_PINS[next_relay], "OUT", Level(relay_states[next_relay]))
    /\ IF result' = Returned
       THEN IF \A r \in Relays : RELAY_PINS[r] \in _registered_pins'
            THEN controller' = "ready" /\ pc' = "ui"
            ELSE UNCHANGED <<pc, controller>>
       ELSE pc' \in {"finally", "except"} /\ UNCHANGED controller

\* Lines 163 and 83-100: a key of the UI (one per relay) makes the controller drive a relay's
\* pin through the Guard. run_tui() (lines 114-124) catches what the UI loop
\* raises and returns, so an exception of the UI ends main()'s try block
\* normally.
main_ui_key(relay_num, value) ==
    /\ pc = "ui"
    /\ set_output(RELAY_PINS[relay_num], value)
    /\ IF result' = Returned
       THEN UNCHANGED pc
       ELSE pc' \in {"ui", "finally"}
    /\ UNCHANGED controller

\* Lines 80-82 and 104-106: 'q' or KeyboardInterrupt leaves the UI loop.
main_ui_quit ==
    /\ pc = "ui"
    /\ pc' = "finally"
    /\ Outcome("quit", <<>>, Returned, <<>>)
    /\ UNCHANGED <<guardVars, hwVars, countVars, controller>>

\* Lines 165-174, except Exception: the fallback gpio_manager.cleanup_all(),
\* then sys.exit(1), which runs the finally block.
main_except ==
    /\ pc = "except"
    /\ cleanup_all
    /\ pc' = "finally"
    /\ UNCHANGED controller

\* Lines 179-180: controller.cleanup() if the name is bound; it marks the
\* controller not ready and makes no hardware call.
main_finally_controller ==
    /\ pc = "finally"
    /\ controller' = IF controller = "unbound" THEN controller ELSE "released"
    /\ pc' = "finally_guard"
    /\ Outcome("controller_cleanup", <<>>, Returned, <<>>)
    /\ UNCHANGED <<guardVars, hwVars, countVars>>

\* Lines 181-183: gpio_manager.cleanup_all(), and main() is over.
main_finally_guard ==
    /\ pc = "finally_guard"
    /\ cleanup_all
    /\ pc' = "exited"
    /\ UNCHANGED controller

\* ------------------------------------------- GPIOManager called by threads
\* Every method of GPIOManager runs inside `with self._lock:`, one class-level
\* threading.Lock (line 14) shared by all callers of the singleton. A call
\* is modelled in three steps: the thread reaches the with statement; it
\* enters it (the lock is free) and evaluates the method's lifecycle tests;
\* it runs the rest of the method and leaves the with statement.
Threads == 1..NumThreads

\* A thread outside the Guard that has not called initialize() last.
Idle == [pc |-> "idle", call |-> "none", mode |-> "None", branch |-> "none", got |-> "none"]

\* The pin and level the threads' setup_pin() and set_output() calls name.
ThreadPin == RELAY_PINS[1]

\* The calls a thread makes: initialize with either mode, setup_pin,
\* set_output and cleanup_all.
ThreadCalls ==
    {<<"initialize", m>> : m \in Modes}
        \cup {<<"setup_pin", "None">>, <<"set_output", "None">>, <<"cleanup_all", "None">>}

\* The thread calls the method and arrives at `with self._lock:`.
thread_call(t, c) ==
    /\ thread[t].pc = "idle"
    /\ thread' = [thread EXCEPT ![t] = [pc |-> "waiting", call |-> c[1], mode |-> c[2],
                                        branch |-> "none", got |-> "none"]]
    /\ UNCHANGED <<lock, guardVars, hwVars, countVars, op, args, result, calls,
                   toggled_from>>

\* What the method's tests on _cleaned_up and _initialized decide: lines
\* 29-33 (initialize), 59-64 (setup_pin), 86-88 (set_output), 121-126
\* (cleanup_all).
thread_branch(t) ==
    CASE thread[t].call = "initialize" ->
            IF _cleaned_up THEN AlreadyFinalized
            ELSE IF _initialized THEN "again" ELSE "first"
      [] thread[t].call = "setup_pin" -> setup_pin_check
      [] thread[t].call = "set_output" ->
            IF _cleaned_up THEN AlreadyFinalized ELSE "pass"
      [] OTHER -> IF cleanup_all_skips THEN "skip" ELSE "pass"

\* `with self._lock:` that does not wait for the lock.
thread_enter_unlocked(t) ==
    /\ thread[t].pc = "waiting"
    /\ lock' = t
    /\ thread' = [thread EXCEPT ![t].pc = "checked", ![t].branch = thread_branch(t)]
    /\ UNCHANGED <<guardVars, hwVars, countVars, op, args, result, calls, toggled_from>>

\* The thread acquires the lock, which must be free, and evaluates the tests.
thread_enter(t) ==
    /\ thread[t].pc = "waiting"
    /\ lock = 0
    /\ lock' = t
    /\ thread' = [thread EXCEPT ![t].pc = "checked", ![t].branch = thread_branch(t)]
    /\ UNCHANGED <<guardVars, hwVars, countVars, op, args, result, calls, toggled_from>>

\* A method that raises `res` at one of its tests, before any GPIO call.
refused(name, a, res) ==
    /\ Outcome(name, a, res, <<>>)
    /\ UNCHANGED <<guardVars, hwVars, countVars>>

\* setup_pin(), lines 66-78, after its tests passed.
setup_pin_run(pin, direction, initial) ==
    \/ /\ Outcome("setup_pin", <<pin, direction, initial>>, HardwareFailure, <<"setup">>)
       /\ UNCHANGED <<guardVars, hwVars, countVars>>
    \/ /\ gpio_can_setup
       /\ gpio_dir' = [gpio_dir EXCEPT ![pin] = direction]
       /\ gpio_level' = IF initial # "None"
                        THEN [gpio_level EXCEPT ![pin] = initial]
                        ELSE gpio_level
       /\ _registered_pins' = _registered_pins \cup {pin}
       /\ Outcome("setup_pin", <<pin, direction, initial>>, Returned, <<"setup">>)
       /\ UNCHANGED <<_initialized, _mode_set, _warnings_set, _cleaned_up,
                      gpio_mode, gpio_warnings, countVars>>

\* set_output(), lines 83-93, after its test passed.
set_output_run(pin, value) ==
    \/ /\ Outcome("set_output", <<pin, value>>, HardwareFailure, <<"output">>)
       /\ UNCHANGED <<guardVars, hwVars, countVars>>
    \/ /\ gpio_can_output(pin)
       /\ gpio_level' = [gpio_level EXCEPT ![pin] = value]
       /\ Outcome("set_output", <<pin, value>>, Returned, <<"output">>)
       /\ UNCHANGED <<guardVars, gpio_mode, gpio_warnings, gpio_dir, countVars>>

\* cleanup_all(), lines 128-137, after its tests passed.
cleanup_all_run ==
    \/ /\ Outcome("cleanup_all", <<>>, Returned, <<"cleanup">>)
       /\ UNCHANGED <<guardVars, hwVars, countVars>>
    \/ /\ gpio_mode' = "None"
       /\ gpio_dir' = [p \in Pins |-> "unset"]
       /\ gpio_level' = [p \in Pins |-> "Z"]
       /\ teardowns' = teardowns + 1
       /\ _cleaned_up' = TRUE
       /\ _initialized' = FALSE
       /\ _registered_pins' = {}
       /\ Outcome("cleanup_all", <<>>, Returned, <<"cleanup">>)
       /\ UNCHANGED <<_mode_set, _warnings_set, gpio_warnings, hw_inits>>

\* The rest of the method on the branch its tests chose.
thread_body(t) ==
    CASE thread[t].call = "initialize" ->
            IF thread[t].branch = "first" THEN initialize_first(thread[t].mode, FALSE)
            ELSE IF thread[t].branch = "again" THEN initialize_again(thread[t].mode, FALSE)
            ELSE refused("initialize", <<thread[t].mode, FALSE>>, thread[t].branch)
      [] thread[t].call = "setup_pin" ->
            IF thread[t].branch = "pass" THEN setup_pin_run(ThreadPin, "OUT", "None")
            ELSE refused("setup_pin", <<ThreadPin, "OUT", "None">>, thread[t].branch)
      [] thread[t].call = "set_output" ->
            IF thread[t].branch = "pass" THEN set_output_run(ThreadPin, RELAY_ON_STATE)
            ELSE refused("set_output", <<ThreadPin, RELAY_ON_STATE>>, thread[t].branch)
      [] OTHER ->
            IF thread[t].branch = "pass" THEN cleanup_all_run
            ELSE refused("cleanup_all", <<>>, Returned)

\* The thread runs the rest of the method, leaves the with statement (the
\* lock is released whether the method returns or raises), and keeps what an
\* initialize() call gave it.
thread_run(t) ==
    /\ thread[t].pc = "checked"
    /\ thread_body(t)
    /\ lock' = 0
    /\ thread' = [thread EXCEPT ![t] =
                     IF thread[t].call = "initialize"
                     THEN [pc |-> "idle", call |-> "initialize", mode |-> thread[t].mode,
                           branch |-> "none", got |-> result']
                     ELSE Idle]

\* ------------------------------------------------------------ specification
\* The modules have been imported: class attributes of GPIOManager, the
\* singleton made by `manager = GPIOManager()`, relay_states at its
\* defaults, no state file yet, and untouched hardware.
Imported(states) ==
    /\ _initialized = FALSE
    /\ _mode_set = "None"
    /\ _warnings_set = FALSE
    /\ _registered_pins = {}
    /\ _cleaned_up = FALSE
    /\ gpio_mode = "None"
    /\ gpio_warnings = TRUE
    /\ gpio_dir = [p \in Pins |-> "unset"]
    /\ gpio_level = [p \in Pins |-> "Z"]
    /\ hw_inits = 0
    /\ teardowns = 0
    /\ op = "none"
    /\ args = <<>>
    /\ result = "none"
    /\ calls = <<>>
    /\ toggled_from = NotToggled
    /\ relay_states = states
    /\ gpio_setup_successful = FALSE
    /\ state_file = Absent
    /\ load_status = "none"
    /\ save_status = "none"
    /\ temp_status = "none"
    /\ saved_states = NoData
    /\ pulsing = {}
    /\ timer = [r \in Relays |-> -1]
    /\ reverting = {}
    /\ pc = "start"
    /\ controller = "unbound"
    /\ lock = 0
    /\ thread = [t \in Threads |-> Idle]

Init == Imported(Defaults)

\* --- the Guard's operations
Initialize ==
    /\ \E mode \in Modes, warnings \in BOOLEAN : initialize(mode, warnings)
    /\ UNCHANGED <<relayVars, pulseVars>>
    /\ UNCHANGED procVars

SetupPin ==
    /\ \E pin \in GuardPins, direction \in Directions, initial \in Levels \cup {"None"} :
          setup_pin(pin, direction, initial)
    /\ UNCHANGED <<relayVars, pulseVars>>
    /\ UNCHANGED procVars

SetOutput ==
    /\ \E pin \in GuardPins, value \in Levels : set_output(pin, value)
    /\ UNCHANGED <<relayVars, pulseVars>>
    /\ UNCHANGED procVars

ReadInput ==
    /\ \E pin \in GuardPins : read_input(pin)
    /\ UNCHANGED <<relayVars, pulseVars>>
    /\ UNCHANGED procVars

ReleasePin ==
    /\ \E pin \in GuardPins : release_pin(pin)
    /\ UNCHANGED <<relayVars, pulseVars>>
    /\ UNCHANGED procVars

CleanupAll ==
    /\ cleanup_all
    /\ UNCHANGED <<relayVars, pulseVars>>
    /\ UNCHANGED procVars

GuardNext == Initialize \/ SetupPin \/ SetOutput \/ ReadInput \/ ReleasePin \/ CleanupAll

GuardSpec == Init /\ [][GuardNext]_vars

\* --- relay control
\* The identifiers operations are issued on: some relays of RELAY_PINS and
\* one number that is no relay.
RelayInputs == (1..NumOpRelays) \cup {Cardinality(Relays) + 1}

\* State files somebody else may have put in place of the committed one:
\* none, an unparsable one, one with a key missing, one with an extra key,
\* one with a key that is no number, and a well-formed one.
ExternalFiles ==
    { Absent, Corrupt,
      Json([k \in {StrOf(n) : n \in Relays \ {Cardinality(Relays)}} |-> k = StrOf(1)]),
      Json([k \in DecimalKeys |-> k \in {StrOf(1), StrOf(Cardinality(Relays) + 1)}]),
      Json([k \in {"x"} |-> TRUE]),
      Json(Dump([r \in Relays |-> r = 2])) }

ExternalWrite ==
    /\ \E f \in ExternalFiles : state_file' = f /\ f # state_file
    /\ Outcome("external_write", <<>>, Returned, <<>>)
    /\ save_status' = "none" /\ temp_status' = "none" /\ NoLoad
    /\ saved_states' = NoData
    /\ UNCHANGED <<relay_states, gpio_setup_successful,
                   guardVars, hwVars, countVars, pulseVars>>
    /\ UNCHANGED procVars

RunBegin ==
    /\ run_relay_control_begin
    /\ UNCHANGED <<guardVars, countVars, pulseVars>>
    /\ UNCHANGED procVars

SetupGpio ==
    /\ setup_gpio
    /\ UNCHANGED <<guardVars, countVars, pulseVars>>
    /\ UNCHANGED procVars

CleanupGpio ==
    /\ cleanup_gpio
    /\ UNCHANGED <<guardVars, countVars, pulseVars>>
    /\ UNCHANGED procVars

LoadState ==
    /\ load_state
    /\ Outcome("load_state", <<>>, Returned, <<>>)
    /\ NoSave
    /\ UNCHANGED <<gpio_setup_successful, guardVars, hwVars, countVars, pulseVars>>
    /\ UNCHANGED procVars

SaveState ==
    /\ save_state(relay_states)
    /\ Outcome("save_state", <<>>, Returned, <<>>)
    /\ NoLoad
    /\ UNCHANGED <<relay_states, gpio_setup_successful, guardVars, hwVars, countVars,
                   pulseVars>>
    /\ UNCHANGED procVars

SetRelay ==
    /\ \E r \in RelayInputs, s \in BOOLEAN : controller_set_relay(r, s)
    /\ UNCHANGED <<guardVars, countVars>>
    /\ UNCHANGED procVars

ToggleRelay ==
    /\ \E r \in RelayInputs : controller_toggle_relay(r)
    /\ UNCHANGED <<guardVars, countVars>>
    /\ UNCHANGED procVars

\* setup, then set_relay
RelayNext == SetupGpio \/ SetRelay

RelaySpec == Init /\ [][RelayNext]_vars

\* setup, then set_relay and toggle_relay
ToggleNext == SetupGpio \/ SetRelay \/ ToggleRelay

ToggleSpec == Init /\ [][ToggleNext]_vars

\* --- persistence: the state file between loads and saves
PersistNext == SetupGpio \/ LoadState \/ SaveState \/ SetRelay \/ ExternalWrite

PersistSpec == Init /\ [][PersistNext]_vars

\* --- the state file across a restart of the process
\* A new process imports the modules again: the class attributes and module
\* globals are back at their initial values, RPi.GPIO has forgotten its
\* mode and channels, and the timers are gone; the state file and the
\* levels of the pins stay.
Restart ==
    /\ _initialized' = FALSE /\ _mode_set' = "None" /\ _warnings_set' = FALSE
    /\ _registered_pins' = {} /\ _cleaned_up' = FALSE
    /\ hw_inits' = 0 /\ teardowns' = 0
    /\ gpio_mode' = "None" /\ gpio_warnings' = TRUE
    /\ gpio_dir' = [p \in Pins |-> "unset"]
    /\ relay_states' = Defaults
    /\ gpio_setup_successful' = FALSE
    /\ pulsing' = {} /\ timer' = [r \in Relays |-> -1] /\ reverting' = {}
    /\ Outcome("restart", <<>>, "none", <<>>)
    /\ NoSave /\ NoLoad
    /\ UNCHANGED gpio_level
    /\ UNCHANGED procVars

\* Every dictionary over the relays of RELAY_PINS can be the one in memory
\* (taken from a state file that has since been deleted).
RoundTripInit == \E states \in [DOMAIN RELAY_PINS -> BOOLEAN] : Imported(states)

RoundTripNext == SaveState \/ Restart \/ LoadState

RoundTripSpec == RoundTripInit /\ [][RoundTripNext]_vars

\* --- the relay dictionary under every operation that reads or writes it
StateNext == SetupGpio \/ LoadState \/ SaveState \/ SetRelay \/ ToggleRelay \/ ExternalWrite

StateSpec == Init /\ [][StateNext]_vars

\* --- pulses
PulseInputs == (1..NumPulseRelays) \cup {Cardinality(Relays) + 1}

PulseSetRelay ==
    /\ \E r \in PulseInputs, s \in BOOLEAN : controller_set_relay(r, s)
    /\ UNCHANGED <<guardVars, countVars>>
    /\ UNCHANGED procVars

PulseRelay ==
    /\ \E r \in PulseInputs, d \in 1..MaxDuration : pulse_relay(r, d)
    /\ UNCHANGED <<guardVars, countVars>>
    /\ UNCHANGED procVars

Tick ==
    /\ tick
    /\ UNCHANGED <<guardVars, countVars>>
    /\ UNCHANGED procVars

PulseExpire ==
    /\ \E r \in Relays : pulse_expire(r)
    /\ UNCHANGED <<guardVars, countVars>>
    /\ UNCHANGED procVars

PulseDriveOff ==
    /\ \E r \in Relays : pulse_drive_off(r)
    /\ UNCHANGED <<guardVars, countVars>>
    /\ UNCHANGED procVars

PulseNext ==
    \/ SetupGpio \/ PulseSetRelay \/ PulseRelay \/ Tick \/ PulseExpire \/ PulseDriveOff

PulseSpec == Init /\ [][PulseNext]_vars

\* Time passes, and the timer thread of every pulse gets to run its callback
\* once the deadline is reached, and to run it to its end (the callbacks are
\* independent of the foreground and of each other).
\* Pulses and what makes their drives fail: the pins may be cleaned up
\* while timers are outstanding.
PulseTimerNext ==
    \/ SetupGpio \/ CleanupGpio \/ PulseRelay \/ Tick \/ PulseExpire \/ PulseDriveOff

PulseLiveSpec ==
    /\ Init /\ [][PulseTimerNext]_vars
    /\ WF_vars(Tick)
    /\ \A r \in Relays : WF_vars(pulse_expire(r) /\ UNCHANGED <<guardVars, countVars, procVars>>)
    /\ \A r \in Relays : WF_vars(pulse_drive_off(r) /\ UNCHANGED <<guardVars, countVars, procVars>>)

\* --- the process of tui.py
MainInitialize ==
    /\ main_initialize
    /\ UNCHANGED <<relayVars, pulseVars, threadVars>>

MainCreate ==
    /\ main_create
    /\ UNCHANGED <<relayVars, pulseVars, threadVars>>

ControllerSetup ==
    /\ controller_setup
    /\ UNCHANGED <<relayVars, pulseVars, threadVars>>

MainUiKey ==
    /\ \E r \in DOMAIN RELAY_PINS, value \in Levels : main_ui_key(r, value)
    /\ UNCHANGED <<relayVars, pulseVars, threadVars>>

MainUiQuit ==
    /\ main_ui_quit
    /\ UNCHANGED <<relayVars, pulseVars, threadVars>>

MainExcept ==
    /\ main_except
    /\ UNCHANGED <<relayVars, pulseVars, threadVars>>

MainFinallyController ==
    /\ main_finally_controller
    /\ UNCHANGED <<relayVars, pulseVars, threadVars>>

MainFinallyGuard ==
    /\ main_finally_guard
    /\ UNCHANGED <<relayVars, pulseVars, threadVars>>

MainNext ==
    \/ MainInitialize \/ MainCreate \/ ControllerSetup \/ MainUiKey \/ MainUiQuit
    \/ MainExcept \/ MainFinallyController \/ MainFinallyGuard

MainSpec == Init /\ [][MainNext]_vars

\* --- threads calling the Guard
ThreadCall ==
    /\ \E t \in Threads, c \in ThreadCalls : thread_call(t, c)
    /\ UNCHANGED <<relayVars, pulseVars, mainVars>>

ThreadEnter ==
    /\ \E t \in Threads : thread_enter(t)
    /\ UNCHANGED <<relayVars, pulseVars, mainVars>>

ThreadRun ==
    /\ \E t \in Threads : thread_run(t)
    /\ UNCHANGED <<relayVars, pulseVars, mainVars>>

ThreadNext == ThreadCall \/ ThreadEnter \/ ThreadRun

ThreadSpec == Init /\ [][ThreadNext]_vars

\* ================================================================== claims
\* ------------------------------------------------------------ Guard (C1-C5)
\* A step of initialize() on a Guard that is already initialized.
InitializeAgain == _initialized /\ op' = "initialize"

C2_InitializeIdempotent ==
    /\ [](_initialized => hw_inits = 1)
    /\ [][ (InitializeAgain /\ args'[1] = _mode_set /\ args'[2] = _warnings_set)
           => /\ result' = Returned
              /\ calls' = <<>>
              /\ UNCHANGED <<guardVars, hwVars, countVars>> ]_vars

\* C2: a repeated initialize with the established parameters has returned.
C2_Witness ==
    /\ op = "initialize" /\ _initialized /\ calls = <<>>
    /\ args = <<_mode_set, _warnings_set>>
    /\ result = Returned
    /\ hw_inits = 1

\* C3: GPIO.cleanup() completes at most once, and cleanup_all called on a
\* Guard that was never initialized or is already cleaned up makes no
\* hardware call and changes nothing in the Guard or the hardware.
C3_TeardownAtMostOnce ==
    /\ [](teardowns <= 1)
    /\ [][ ((~_initialized \/ _cleaned_up) /\ op' = "cleanup_all")
           => /\ calls' = <<>>
              /\ UNCHANGED <<guardVars, hwVars, countVars>> ]_vars

\* C3: cleanup_all has been called again after the teardown and did nothing.
C3_Witness ==
    /\ op = "cleanup_all" /\ calls = <<>>
    /\ _cleaned_up /\ teardowns = 1

\* C4 as stated: setup_pin fails with NotInitialized before any successful
\* initialize and with AlreadyFinalized after cleanup_all, in both cases
\* without a hardware call and without registering the pin.
C4_SetupPinErrorKinds ==
    [][ (op' = "setup_pin" /\ (~_initialized \/ _cleaned_up))
        => /\ result' = (IF _cleaned_up THEN AlreadyFinalized ELSE NotInitialized)
           /\ calls' = <<>>
           /\ UNCHANGED <<_registered_pins, hwVars>> ]_vars

\* C5: once cleanup_all has torn the hardware down, every initialize,
\* set_output and read_input fails with AlreadyFinalized without a hardware
\* call, and the Guard stays cleaned up.
C5_FinalizedIsTerminal ==
    /\ []((_cleaned_up /\ op \in {"initialize", "set_output", "read_input"})
          => (result = AlreadyFinalized /\ calls = <<>>))
    /\ [][_cleaned_up => _cleaned_up']_vars

\* C5: set_output has been refused on a cleaned-up Guard.
C5_Witness ==
    /\ _cleaned_up /\ op = "set_output"
    /\ result = AlreadyFinalized /\ calls = <<>>
SaveFailed == save_status \in {"create", "write", "fsync", "rename"}

\* C7 as stated: when save_state fails inside set_relay after GPIO.output
\* succeeded, the caller gets a result that differs from the one of a
\* successful call, and the pin and relay_states keep the new value.
C7_PersistFailureReported ==
    (op = "set_relay" /\ SaveFailed)
        => /\ result # Returned
           /\ gpio_level[RELAY_PINS[args[1]]] = Level(args[2])
           /\ relay_states[args[1]] = args[2]

\* C9: when set_relay(r, s) on a relay of RELAY_PINS returns after a save
\* that succeeded, the pin of r is at the level of s, relay_states[r] is s,
\* every other relay is as before, and the state file holds exactly the
\* current relay_states under decimal string keys.
C9_SetRelayApplied ==
    [][ (op' = "set_relay" /\ result' = Returned /\ save_status' = "saved")
        => /\ args'[1] \in DOMAIN RELAY_PINS
           /\ gpio_level'[RELAY_PINS[args'[1]]] = Level(args'[2])
           /\ relay_states'[args'[1]] = args'[2]
           /\ DOMAIN relay_states' = DOMAIN relay_states
           /\ \A q \in DOMAIN relay_states \ {args'[1]} : relay_states'[q] = relay_states[q]
           /\ state_file'.kind = "json"
           /\ DOMAIN state_file'.data = {StrOf(n) : n \in DOMAIN RELAY_PINS}
           /\ \A n \in DOMAIN RELAY_PINS : state_file'.data[StrOf(n)] = relay_states'[n] ]_vars

\* C9: set_relay(1, True) has returned with relay 1 on, its pin low and the
\* file saying so.
C9_Witness ==
    /\ op = "set_relay" /\ args = <<1, TRUE>> /\ result = Returned
    /\ save_status = "saved"
    /\ relay_states[1] /\ gpio_level[RELAY_PINS[1]] = RELAY_ON_STATE
    /\ state_file.kind = "json" /\ state_file.data[StrOf(1)]

\* ------------------------------------------------- persistence (C8, C10)
\* The committed file changes only through a completed save_state(), which
\* puts the whole of relay_states in it (or through somebody else's write).
CommittedOnlyByReplace ==
    (state_file' # state_file /\ op' # "external_write")
        => /\ save_status' = "saved"
           /\ state_file'.kind = "json"
           /\ DOMAIN state_file'.data = {StrOf(n) : n \in DOMAIN relay_states'}
           /\ \A n \in DOMAIN relay_states' : state_file'.data[StrOf(n)] = relay_states'[n]

\* C8 as stated: a save that fails at any step leaves the committed state
\* file as it was and no temporary file behind, and the committed file
\* changes only by the replace with a fully written temporary file.
C8_FailedSaveLeavesNoTemp ==
    [][ /\ SaveFailed' => (state_file' = state_file /\ temp_status' \in {"none", "removed"})
        /\ CommittedOnlyByReplace ]_vars

\* C8 amended: a save that fails at any step leaves the committed state
\* file as it was; no temporary file exists after a failed creation, and
\* after a later failure the temporary file is removed unless os.remove
\* itself raises, in which case it stays; the committed file changes only
\* by the replace with a fully written temporary file.
C8_FailedSaveKeepsCommitted ==
    [][ /\ SaveFailed'
           => /\ state_file' = state_file
              /\ temp_status' \in (IF save_status' = "create"
                                   THEN {"none"} ELSE {"removed", "remove_failed"})
        /\ CommittedOnlyByReplace ]_vars

\* C8: a save failed at the final replace while a committed file existed,
\* and the temporary file was removed.
C8_Witness ==
    /\ save_status = "rename" /\ temp_status = "removed"
    /\ state_file.kind = "json"
    /\ DOMAIN state_file.data = {StrOf(n) : n \in DOMAIN relay_states}
    /\ \E n \in DOMAIN relay_states : state_file.data[StrOf(n)] # relay_states[n]

\* C10 as stated: a load that rejects the file (it does not parse, or its
\* key set is not that of RELAY_PINS) leaves relay_states at the all-off
\* defaults, whatever relay_states was before.
C10_RejectedLoadGivesDefaults ==
    (op \in {"load_state", "setup_gpio"} /\ load_status \in {"mismatch", "error"})
        => relay_states = Defaults
\* ---------------------------------------------------- relay_states (C11)
\* C11: in every reachable state the keys of relay_states are the keys of
\* RELAY_PINS, whatever set_relay, toggle_relay, load_state and save_state
\* calls were made, with relay numbers of RELAY_PINS or others, and
\* whatever state file load_state found.
C11_KeysAreRelayPins == DOMAIN relay_states = DOMAIN RELAY_PINS

\* C11: toggle_relay was called with a number that is no relay while the
\* state file on disk carries a key that is no relay either.
C11_Witness ==
    /\ op = "toggle_relay" /\ args[1] \notin DOMAIN RELAY_PINS
    /\ state_file.kind = "json"
    /\ StrOf(Cardinality(Relays) + 1) \in DOMAIN state_file.data
    /\ DOMAIN relay_states = DOMAIN RELAY_PINS
    /\ \E r \in Relays : relay_states[r]
\* ------------------------------------------------------ round trip (C12)
\* C12: when the state file was put in place by a successful save_state()
\* of a dictionary over the relays of RELAY_PINS, a load_state() that can
\* read the file takes the branch that accepts it and leaves relay_states
\* equal to the saved dictionary, whatever relay_states was before the load
\* (the same, or the defaults of a new process).
C12_SaveLoadRoundTrip ==
    [][ (op' \in {"load_state", "setup_gpio"} /\ load_status' # "io_error"
         /\ saved_states \in [DOMAIN RELAY_PINS -> BOOLEAN])
        => (load_status' = "loaded" /\ relay_states' = saved_states) ]_vars

\* C12: a dictionary with relays on and off has come back from the file.
C12_Witness ==
    /\ op = "load_state" /\ load_status = "loaded"
    /\ saved_states \in [DOMAIN RELAY_PINS -> BOOLEAN]
    /\ relay_states = saved_states
    /\ relay_states[1] /\ ~relay_states[2] /\ relay_states[Cardinality(Relays)]
\* --------------------------------------------- rejected requests (C13, C14)
\* C13 as stated, in its weakest reading: set_relay on a relay of RELAY_PINS
\* while gpio_setup_successful is False (setup_gpio never ran, or it raised
\* part-way) fails, whatever the kind of failure, drives no pin, and leaves
\* relay_states and the state file as they were.
C13_SetRelayNeedsSetup ==
    [][ (op' = "set_relay" /\ args'[1] \in DOMAIN RELAY_PINS /\ ~gpio_setup_successful)
        => (result' # Returned /\ UNCHANGED <<relay_states, state_file, gpio_level>>) ]_vars

\* C14 as stated: set_relay and toggle_relay with a number that is not in
\* RELAY_PINS fail with UnknownRelay, make no GPIO call, and leave
\* relay_states, the pins and the state file as they were.
C14_UnknownRelayFails ==
    [][ (op' \in {"set_relay", "toggle_relay"} /\ args'[1] \notin DOMAIN RELAY_PINS)
        => /\ result' = "UnknownRelay"
           /\ calls' = <<>>
           /\ UNCHANGED <<relay_states, state_file, hwVars>> ]_vars
\* ----------------------------------------------------- toggle_relay (C15)
\* A toggle_relay of a relay of RELAY_PINS that returns after a save that
\* succeeded.
ToggleDone ==
    /\ op' = "toggle_relay" /\ args'[1] \in DOMAIN RELAY_PINS
    /\ result' = Returned /\ save_status' = "saved"

\* The second of two such toggles of the same relay, one after the other.
SecondToggle ==
    /\ op = "toggle_relay" /\ result = Returned /\ save_status = "saved"
    /\ ToggleDone /\ args' = args

\* The state file holds exactly the dictionary `states`.
FileHolds(file, states) ==
    /\ file.kind = "json"
    /\ DOMAIN file.data = {StrOf(n) : n \in DOMAIN states}
    /\ \A n \in DOMAIN states : file.data[StrOf(n)] = states[n]

\* Successful toggle: the relay gets the negation of its state, as by
\* set_relay: memory, pin and file.
ToggleNegates ==
    ToggleDone
        => /\ relay_states' = [relay_states EXCEPT ![args'[1]] = ~relay_states[args'[1]]]
           /\ gpio_level'[RELAY_PINS[args'[1]]] = Level(~relay_states[args'[1]])
           /\ FileHolds(state_file', relay_states')

\* C15 as stated, for toggles after a setup_gpio that completed:
\* toggle_relay negates through set_relay, and the second of two
\* consecutive successful toggles of a relay brings back the state, the pin
\* level and the state file content found by the first.
C15_TwoTogglesRestoreAll ==
    [][ /\ ToggleNegates
        /\ (SecondToggle /\ gpio_setup_successful)
             => /\ relay_states'[args'[1]] = toggled_from.state
                /\ gpio_level'[RELAY_PINS[args'[1]]] = toggled_from.level
                /\ state_file' = toggled_from.file ]_vars

\* C15 amended: toggle_relay negates through set_relay; the second of two
\* consecutive successful toggles of a relay brings back the state found by
\* the first and leaves the pin at the level of that state and the file
\* holding the dictionary; the pin level is the one found by the first
\* toggle if the pin was then at the level of the relay's state, and the
\* file content is the one found by the first toggle if the file then held
\* the dictionary.
C15_TwoTogglesRestoreState ==
    [][ /\ ToggleNegates
        /\ SecondToggle
             => /\ relay_states'[args'[1]] = toggled_from.state
                /\ \A q \in DOMAIN relay_states \ {args'[1]} : relay_states'[q] = relay_states[q]
                /\ gpio_level'[RELAY_PINS[args'[1]]] = Level(relay_states'[args'[1]])
                /\ FileHolds(state_file', relay_states')
                /\ toggled_from.level = Level(toggled_from.state)
                     => gpio_level'[RELAY_PINS[args'[1]]] = toggled_from.level
                /\ FileHolds(toggled_from.file, relay_states')
                     => state_file' = toggled_from.file ]_vars

\* C15: the second of two consecutive toggles of relay 1 has returned: the
\* relay is on again as the first toggle found it.
C15_Witness ==
    /\ op = "toggle_relay" /\ args = <<1>> /\ result = Returned /\ save_status = "saved"
    /\ toggled_from.nth = 2
    /\ relay_states[1] /\ ~toggled_from.state
    /\ gpio_level[RELAY_PINS[1]] = RELAY_ON_STATE
    /\ FileHolds(state_file, relay_states)
\* -------------------------------------------------------- setup_gpio (C16)
\* C16: when setup_gpio returns, every pin of RELAY_PINS is an output at
\* the level of its relay's state in relay_states (LOW for on, HIGH for
\* off), where relay_states is what load_state left: the content of an
\* accepted state file, or, with no state file, the dictionary as it was,
\* which at the start of a process is all off, so that all pins are HIGH.
C16_SetupAppliesLoadedState ==
    [][ (op' = "setup_gpio" /\ result' = Returned)
        => /\ gpio_setup_successful'
           /\ \A r \in DOMAIN RELAY_PINS :
                /\ gpio_dir'[RELAY_PINS[r]] = "OUT"
                /\ gpio_level'[RELAY_PINS[r]] = (IF relay_states'[r] THEN "LOW" ELSE "HIGH")
           /\ load_status' = "loaded"
                => \A r \in DOMAIN RELAY_PINS : relay_states'[r] = state_file.data[StrOf(r)]
           /\ state_file.kind = "absent" => relay_states' = relay_states
           /\ (state_file.kind = "absent" /\ relay_states = Defaults)
                => \A r \in DOMAIN RELAY_PINS :
                     ~relay_states'[r] /\ gpio_level'[RELAY_PINS[r]] = "HIGH" ]_vars

\* C16: setup_gpio has returned after loading a file that has relay 2 on
\* and the others off.
C16_Witness ==
    /\ op = "setup_gpio" /\ result = Returned /\ load_status = "loaded"
    /\ relay_states[2] /\ ~relay_states[1]
    /\ gpio_dir[RELAY_PINS[2]] = "OUT"
    /\ gpio_level[RELAY_PINS[2]] = "LOW" /\ gpio_level[RELAY_PINS[1]] = "HIGH"
\* ------------------------------------------------- pulses (C17, C18)
\* The steps a pulse is made of: the call, the passage of time, and the two
\* halves of the timer callback.
PulseSteps == {"pulse_relay", "tick", "pulse_expire", "pulse_drive_off"}

\* C17: no step of a pulse, from the pulse_relay call (started, rejected or
\* failed at the on drive) to the end of the timer callback (off drive done
\* or failed), changes relay_states or the state file.
C17_PulseLeavesModel ==
    [][ op' \in PulseSteps => UNCHANGED <<relay_states, state_file>> ]_vars

\* C17: a pulse of relay 1 is running, its pin is at the on level, and
\* relay_states and the state file have the relay off.
C17_Witness ==
    /\ op = "pulse_relay" /\ args[1] = 1 /\ result = "Started"
    /\ is_pulsing(1) /\ gpio_level[RELAY_PINS[1]] = RELAY_ON_STATE
    /\ ~relay_states[1]
    /\ FileHolds(state_file, relay_states)
\* C18: every pulse ends. A relay in PulseRegistry eventually is out of it;
\* the timer callback takes it out in a step of its own that drives no pin,
\* the off drive that follows leaves the registry alone whether it succeeds
\* or fails, and a pulse_relay whose on drive fails returns with the relay
\* out of the registry.
C18_EveryPulseEnds ==
    /\ \A r \in Relays : is_pulsing(r) ~> ~is_pulsing(r)
    /\ [][ /\ op' = "pulse_expire"
              => (args'[1] \notin pulsing' /\ UNCHANGED gpio_level)
           /\ op' = "pulse_drive_off" => UNCHANGED pulsing
           /\ (op' = "pulse_relay" /\ result' = HardwareFailure)
              => args'[1] \notin pulsing' ]_vars

\* C18: the callback of a pulse has finished with a failed off drive: the
\* relay is out of PulseRegistry and its pin is still at the on level.
C18_Witness ==
    /\ op = "pulse_drive_off" /\ reverting = {}
    /\ ~is_pulsing(args[1])
    /\ gpio_level[RELAY_PINS[args[1]]] = RELAY_ON_STATE
\* ------------------------------------------------ unregistered pins (C19)
\* C19: set_output and read_input on a pin that is not in _registered_pins
\* (never set up, or released), on a Guard that is not cleaned up, make
\* their GPIO call all the same: the only failure is one raised by RPi.GPIO,
\* a write that returns has set the level, a read that returns gives the
\* pin's level, and _registered_pins is unchanged.
C19_UnregisteredPinTolerated ==
    [][ (op' \in {"set_output", "read_input"} /\ args'[1] \notin _registered_pins
         /\ ~_cleaned_up)
        => /\ UNCHANGED _registered_pins
           /\ calls' = <<IF op' = "set_output" THEN "output" ELSE "input">>
           /\ op' = "set_output" => result' \in {Returned, HardwareFailure}
           /\ (op' = "set_output" /\ result' = Returned) => gpio_level'[args'[1]] = args'[2]
           /\ op' = "read_input" => result' \in {gpio_level[args'[1]], HardwareFailure} ]_vars

\* C19: a pin was set up as an output and released, and set_output on it
\* has driven it.
C19_Witness ==
    /\ op = "set_output" /\ result = Returned /\ calls = <<"output">>
    /\ ~_cleaned_up /\ _initialized
    /\ args[1] \notin _registered_pins
    /\ gpio_level[args[1]] = args[2]
\* ------------------------------------------------ pins and states (C20)
\* Every relay that is not pulsing has its pin at the level of its state.
PinsFollowStates ==
    \A r \in DOMAIN RELAY_PINS \ pulsing :
        gpio_level[RELAY_PINS[r]] = Level(relay_states[r])

\* C20: between operations, the pins of the relays that are not pulsing
\* are at the levels of relay_states: a setup_gpio that returns makes it
\* so, and every set_relay and toggle_relay keeps it so. A call whose
\* GPIO.output raises ends with that exception and leaves relay_states, the
\* pins and the state file as they were; a call whose save fails has moved
\* both the pin and relay_states.
C20_PinsFollowStates ==
    [][ /\ (op' = "setup_gpio" /\ result' = Returned) => PinsFollowStates'
        /\ (PinsFollowStates /\ op' \in {"set_relay", "toggle_relay"})
              => /\ PinsFollowStates'
                 /\ result' \in {Returned, HardwareFailure}
                 /\ result' = HardwareFailure
                      => UNCHANGED <<relay_states, state_file, gpio_level>>
                 /\ (SaveFailed' /\ op' = "set_relay")
                      => /\ relay_states'[args'[1]] = args'[2]
                         /\ gpio_level'[RELAY_PINS[args'[1]]] = Level(args'[2]) ]_vars

\* C20: after a setup_gpio that completed and with a relay on, a set_relay
\* has failed at GPIO.output and the pins are still at the levels of
\* relay_states.
C20_Witness ==
    /\ gpio_setup_successful /\ PinsFollowStates
    /\ op = "set_relay" /\ result = HardwareFailure
    /\ \E r \in DOMAIN RELAY_PINS :
          relay_states[r] /\ gpio_level[RELAY_PINS[r]] = RELAY_ON_STATE
\* ------------------------------------------- Guard failures and lifecycle
\* C23 as stated: when an RPi.GPIO call raises inside initialize, setup_pin
\* or cleanup_all, the caller gets the failure and the Guard's fields are
\* as before: after a failed initialize the Guard is uninitialized with no
\* mode recorded, a failed setup_pin has not registered the pin, and a
\* cleanup_all whose GPIO.cleanup() did not complete has not marked the
\* Guard cleaned up.
C23_HardwareFailurePropagates ==
    [][ /\ (op' = "initialize" /\ calls' # <<>> /\ hw_inits' = hw_inits)
             => /\ result' = HardwareFailure
                /\ UNCHANGED guardVars
                /\ ~_initialized' /\ _mode_set' = "None"
        /\ (op' = "setup_pin" /\ calls' # <<>> /\ result' # Returned)
             => (result' = HardwareFailure /\ UNCHANGED guardVars)
        /\ (op' = "cleanup_all" /\ calls' # <<>> /\ teardowns' = teardowns)
             => (result' = HardwareFailure /\ UNCHANGED guardVars) ]_vars

\* C24: in every reachable state the Guard is not both initialized and
\* cleaned up, and pins are registered only while it is initialized and not
\* cleaned up; from a cleaned-up Guard every step leads to a cleaned-up
\* Guard that is not initialized and has no registered pin.
C24_GuardLifecycle ==
    /\ [](~(_initialized /\ _cleaned_up))
    /\ [](_registered_pins # {} => (_initialized /\ ~_cleaned_up))
    /\ [][ _cleaned_up => (_cleaned_up' /\ ~_initialized' /\ _registered_pins' = {}) ]_vars

\* C24: setup_pin was tried on a cleaned-up Guard and registered nothing.
C24_Witness ==
    /\ _cleaned_up /\ ~_initialized /\ teardowns = 1
    /\ op = "setup_pin" /\ result # Returned
    /\ _registered_pins = {}
\* ------------------------------------------------------- tui.py main (C21)
\* main() calls gpio_manager.cleanup_all() in this step.
TeardownInvoked == pc \in {"except", "finally_guard"} /\ pc' # pc

\* C21 as stated: on every path through main(), gpio_manager.cleanup_all()
\* is called only when controller.cleanup() has run for the controller that
\* was created (or when none was created), and GPIO.cleanup() completes at
\* most once however often cleanup_all() is called.
C21_TeardownAfterControllerCleanup ==
    /\ [](teardowns <= 1)
    /\ [][ TeardownInvoked => controller \in {"unbound", "released"} ]_vars
\* -------------------------------------------------- Guard and threads (C22)
\* Thread t is back from an initialize() call that neither hit a failing
\* GPIO call nor found the Guard cleaned up.
InitializeDone(t) ==
    /\ thread[t].pc = "idle" /\ thread[t].call = "initialize"
    /\ thread[t].got \in {Returned, ConfigurationConflict}

\* Thread t finishes its call in this step.
ThreadRan(t) == thread[t].pc = "checked" /\ thread'[t].pc = "idle"

\* C22: under the lock at most one thread is inside a Guard method;
\* GPIO.setmode + GPIO.setwarnings complete at most once, and exactly once
\* when some thread's initialize() returned; of two threads back from
\* initialize() calls with different modes (no GPIO call having failed and
\* the Guard not cleaned up) exactly one returned and the other got
\* ConfigurationConflict; and no thread's set_output() or setup_pin() makes
\* a GPIO call once GPIO.cleanup() has completed.
C22_SerializedByLock ==
    /\ [](Cardinality({t \in Threads : thread[t].pc = "checked"}) <= 1)
    /\ [](hw_inits <= 1)
    /\ [](\A t \in Threads :
             (InitializeDone(t) /\ thread[t].got = Returned)
                => (hw_inits = 1 /\ thread[t].mode = _mode_set))
    /\ [](\A t, u \in Threads :
             (InitializeDone(t) /\ InitializeDone(u) /\ thread[t].mode # thread[u].mode)
                => {thread[t].got, thread[u].got} = {Returned, ConfigurationConflict})
    /\ [][ \A t \in Threads :
             (ThreadRan(t) /\ thread[t].call \in {"set_output", "setup_pin"}
                /\ calls' # <<>>)
                => teardowns = 0 ]_vars

\* C22: two threads are back from initialize() calls with different modes,
\* one with the mode set and the other with the conflict.
C22_Witness ==
    \E t, u \in Threads :
        /\ InitializeDone(t) /\ InitializeDone(u)
        /\ thread[t].mode # thread[u].mode
        /\ thread[t].got = Returned /\ thread[u].got = ConfigurationConflict
        /\ hw_inits = 1
====
